---- MODULE Spec2Model ----
(***************************************************************************)
(* Model of the Gmail + Cloud Functions demo (src/index.js).               *)
(*                                                                         *)
(* The process owns one shared OAuth2 client (oauth2Client) whose          *)
(* credentials every handler reads and overwrites, a Datastore kind        *)
(* 'oauth2Token' keyed by email address, and three asynchronous handlers:  *)
(* oauth2callback, initWatch and onNewMessage.  A handler runs from one    *)
(* I/O completion to the next I/O request without interruption (one        *)
(* JavaScript task and its microtasks); handlers of different requests     *)
(* interleave at those suspension points.                                  *)
(***************************************************************************)
EXTENDS Integers, Sequences, FiniteSets, TLC

(***************************************************************************)
(* Bounds of the model.                                                    *)
(***************************************************************************)
\* number of times the clock advances
MaxTicks == 1

(***************************************************************************)
(* Program constants.                                                      *)
(***************************************************************************)
UNKNOWN_USER_MESSAGE == "Uninitialized email address"

\* config.UNKNOWN_USER_MESSAGE as lib/oauth.js reads it: config.js assigns its
\* values to a rebound local 'exports', so require('../config') is {} and the
\* message of new Error(undefined) is empty
CONFIG_UNKNOWN_USER_MESSAGE == ""
NO_LABEL_MATCH == "Message doesn't match label"
\* safety margin of the freshness test, in milliseconds
Margin == 60000
TARGET_LABEL == "bird"
STARRED == "STARRED"

(***************************************************************************)
(* Environment values.                                                     *)
(***************************************************************************)
\* Date.now() at process start, and the step of one clock advance
T0 == 1000000
TickStep == 60001
\* lifetime of an access token granted by the token endpoint
TokenLifetime == 3600000

\* an absent error, and an absent or empty string (both falsy in JavaScript)
None == "none"
NoStr == <<>>

\* strings are sequences of UTF-16 code units (see Strings below)
UserA == <<"a", "@", "x">>
UserB == <<"b", "@", "x">>
Identities == {UserA, UserB}

\* two addresses the code accepts from getProfile as it accepts any string,
\* each with a lone surrogate (code unit 0xD800, written "#55296"): the last
\* code unit of UserS, and the code unit before the '@' of UserT
UserS == <<"s", "@", "#55296">>
UserT == <<"t", "#55296", "@", "x">>

\* the users who may give consent at the authorization endpoint
Grantees == Identities \cup {UserS, UserT}

\* error messages of the collaborators
ProviderError == "provider error"
NoRefreshToken == "No refresh token is set."
TypeErrorMsg == "TypeError"
VisionErrorMsg == "vision error"
SyntaxErrorMsg == "SyntaxError"
URIErrorMsg == "URIError"

(***************************************************************************)
(* Credential records.  access_token and refresh_token are represented by  *)
(* the identity they were issued for (None when the field is absent);      *)
(* expiry_date is a millisecond timestamp, 0 when the field is absent.     *)
(***************************************************************************)
Cred(at, rt, exp) == [access_token |-> at, refresh_token |-> rt, expiry_date |-> exp]

\* new google.auth.OAuth2(...) starts with credentials = {}
EmptyCreds == Cred(NoStr, NoStr, 0)

\* tokens[0] of a lookup that finds no entity (undefined)
NoRecord == Cred(NoStr, NoStr, -1)

\* the records found in the store at process start: none, one that expired
\* before the start, or one that expires just after the safety margin; the
\* expired record of UserB carries no refresh token, and the addresses with a
\* surrogate have no record before their first authorization
InitRecords(i) ==
  IF i \in Identities
    THEN {NoRecord, Cred(i, IF i = UserA THEN i ELSE NoStr, T0 - 1),
          Cred(i, i, T0 + Margin + 1)}
    ELSE {NoRecord}

(***************************************************************************)
(* State.                                                                  *)
(***************************************************************************)
VARIABLES
  store,   \* Datastore kind 'oauth2Token': identity -> record or NoRecord
  creds,   \* oauth2Client.credentials, shared by every handler
  now,     \* the time the clock showed when it was last read
  ticks,   \* number of clock advances so far
  req      \* the requests, one per slot

vars == <<store, creds, now, ticks, req>>

\* two requests, which may be in flight together
Slots == {1, 2}


(***************************************************************************)
(* Strings.                                                                *)
(***************************************************************************)
\* String.prototype.includes for a one-character needle
Contains(str, ch) == \E i \in 1..Len(str) : str[i] = ch

\* Array.prototype.includes: exact (===) match against an element
Includes(list, x) == \E i \in 1..Len(list) : list[i] = x

\* a string of the model is the sequence of its UTF-16 code units, as
\* str.charCodeAt(i) reads them: a code unit is a one-character string for the
\* printable characters of ASCII that a string literal can hold (codes 32 to
\* 95 and 97 to 126), and the element "#n" for every other code unit n; a
\* character above U+FFFF is the two code units of its surrogate pair
LowChars ==
  " !\"#$%&'()*+,-./0123456789:;<=>?@ABCDEFGHIJKLMNOPQRSTUVWXYZ[\\]^_"
HighChars == "abcdefghijklmnopqrstuvwxyz{|}~"

FirstLow == 32
FirstHigh == 97

\* String.fromCharCode(n), n a code unit
Chr(n) ==
  IF n >= FirstLow /\ n < FirstLow + Len(LowChars)
    THEN SubSeq(LowChars, n - FirstLow + 1, n - FirstLow + 1)
  ELSE IF n >= FirstHigh /\ n < FirstHigh + Len(HighChars)
    THEN SubSeq(HighChars, n - FirstHigh + 1, n - FirstHigh + 1)
  ELSE "#" \o ToString(n)

\* the code units written as one-character strings
Codes ==
  (FirstLow..(FirstLow + Len(LowChars) - 1))
    \cup (FirstHigh..(FirstHigh + Len(HighChars) - 1))

\* the code unit of every one-character string
CodeOf == [ch \in {Chr(n) : n \in Codes} |-> CHOOSE n \in Codes : Chr(n) = ch]

InAlphabet(ch) == ch \in DOMAIN CodeOf

HexUpper == "0123456789ABCDEF"
HexLower == "0123456789abcdef"

HexChars ==
  {SubSeq(HexUpper, i, i) : i \in 1..Len(HexUpper)}
    \cup {SubSeq(HexLower, i, i) : i \in 1..Len(HexLower)}

\* the value of every hexadecimal digit, in either case
HexTable ==
  [ch \in HexChars |->
     (CHOOSE i \in 1..Len(HexUpper) :
        SubSeq(HexUpper, i, i) = ch \/ SubSeq(HexLower, i, i) = ch) - 1]

\* the value of a hexadecimal digit, -1 for any other character (unhexTable)
HexVal(ch) == IF ch \in HexChars THEN HexTable[ch] ELSE -1

HexDigit(n) == SubSeq(HexUpper, n + 1, n + 1)

\* the number a decimal numeral denotes
RECURSIVE ParseDec(_)
ParseDec(digits) ==
  IF Len(digits) = 0 THEN 0
  ELSE (10 * ParseDec(SubSeq(digits, 1, Len(digits) - 1)))
         + HexVal(SubSeq(digits, Len(digits), Len(digits)))

\* ch.charCodeAt(0)
Ord(ch) ==
  IF InAlphabet(ch) THEN CodeOf[ch]
  ELSE ParseDec(SubSeq(ch, 2, Len(ch)))

\* U+FFFD, which stands for every ill-formed byte sequence
REPLACEMENT == 65533

\* the bytes of the UTF-8 encoding of code point n
Utf8Encode(n) ==
  IF n < 128 THEN <<n>>
  ELSE IF n < 2048 THEN <<192 + (n \div 64), 128 + (n % 64)>>
  ELSE IF n < 65536
    THEN <<224 + (n \div 4096), 128 + ((n \div 64) % 64), 128 + (n % 64)>>
  ELSE <<240 + (n \div 262144), 128 + ((n \div 4096) % 64),
         128 + ((n \div 64) % 64), 128 + (n % 64)>>

RECURSIVE Utf8EncodeAll(_)
Utf8EncodeAll(points) ==
  IF points = <<>> THEN <<>>
  ELSE Utf8Encode(points[1]) \o Utf8EncodeAll(Tail(points))

\* the number of continuation bytes that follow lead byte b, 0 for a byte
\* that leads no sequence
Need(b) ==
  IF b >= 194 /\ b <= 223 THEN 1
  ELSE IF b >= 224 /\ b <= 239 THEN 2
  ELSE IF b >= 240 /\ b <= 244 THEN 3
  ELSE 0

\* the range of the first continuation byte after lead byte b: no overlong
\* form, no surrogate, nothing above U+10FFFF
Lower(b) == IF b = 224 THEN 160 ELSE IF b = 240 THEN 144 ELSE 128
Upper(b) == IF b = 237 THEN 159 ELSE IF b = 244 THEN 143 ELSE 191

\* the j-th byte after the lead byte bytes[1] continues its sequence
ContOk(bytes, j) ==
  /\ j + 1 <= Len(bytes)
  /\ bytes[j + 1] >= (IF j = 1 THEN Lower(bytes[1]) ELSE 128)
  /\ bytes[j + 1] <= (IF j = 1 THEN Upper(bytes[1]) ELSE 191)

\* the number of bytes that continue the sequence led by bytes[1]
Conts(bytes) ==
  CHOOSE k \in 0..Need(bytes[1]) :
    /\ \A j \in 1..k : ContOk(bytes, j)
    /\ k = Need(bytes[1]) \/ ~ContOk(bytes, k + 1)

\* the code point of the sequence of bytes[1] and its n continuation bytes
RECURSIVE CodePoint(_, _)
CodePoint(bytes, n) ==
  IF n = 0
    THEN bytes[1] - (CASE Need(bytes[1]) = 1 -> 192
                       [] Need(bytes[1]) = 2 -> 224
                       [] OTHER -> 240)
    ELSE (64 * CodePoint(bytes, n - 1)) + (bytes[n + 1] - 128)

\* the code points of a byte sequence read as UTF-8 (Buffer.toString): each
\* maximal ill-formed part gives one U+FFFD
RECURSIVE Utf8Decode(_)
Utf8Decode(bytes) ==
  IF bytes = <<>> THEN <<>>
  ELSE IF bytes[1] < 128 THEN <<bytes[1]>> \o Utf8Decode(Tail(bytes))
  ELSE IF Need(bytes[1]) = 0 THEN <<REPLACEMENT>> \o Utf8Decode(Tail(bytes))
  ELSE IF Conts(bytes) = Need(bytes[1])
    THEN <<CodePoint(bytes, Need(bytes[1]))>>
           \o Utf8Decode(SubSeq(bytes, Need(bytes[1]) + 2, Len(bytes)))
  ELSE <<REPLACEMENT>> \o Utf8Decode(SubSeq(bytes, Conts(bytes) + 2, Len(bytes)))

\* a byte sequence is well-formed UTF-8 when decoding loses nothing
ValidUtf8(bytes) == Utf8EncodeAll(Utf8Decode(bytes)) = bytes

\* the UTF-16 code units of code point p: p itself, or the surrogate pair of
\* a code point above U+FFFF
Units(p) ==
  IF p < 65536 THEN <<p>>
  ELSE <<55296 + ((p - 65536) \div 1024), 56320 + ((p - 65536) % 1024)>>

\* the string of a sequence of code points
RECURSIVE Chars(_)
Chars(points) ==
  IF points = <<>> THEN <<>>
  ELSE [i \in 1..Len(Units(points[1])) |-> Chr(Units(points[1])[i])]
         \o Chars(Tail(points))

\* str starts with %XY, X and Y hexadecimal digits
IsEscape(str) ==
  Len(str) >= 3 /\ str[1] = "%" /\ HexVal(str[2]) >= 0 /\ HexVal(str[3]) >= 0

\* the bytes of the escapes that str starts with
RECURSIVE EscapedBytes(_)
EscapedBytes(str) ==
  IF IsEscape(str)
    THEN <<(16 * HexVal(str[2])) + HexVal(str[3])>>
           \o EscapedBytes(SubSeq(str, 4, Len(str)))
    ELSE <<>>

\* decodeURIComponent does not throw: every '%' starts an escape and every
\* run of escapes is well-formed UTF-8
RECURSIVE Decodable(_)
Decodable(str) ==
  IF str = <<>> THEN TRUE
  ELSE IF str[1] = "%"
    THEN /\ IsEscape(str)
         /\ ValidUtf8(EscapedBytes(str))
         /\ Decodable(SubSeq(str, (3 * Len(EscapedBytes(str))) + 1, Len(str)))
  ELSE Decodable(Tail(str))

\* decodeURIComponent(str), for a str it does not throw on
RECURSIVE DecodeURIComponent(_)
DecodeURIComponent(str) ==
  IF str = <<>> THEN <<>>
  ELSE IF IsEscape(str)
    THEN Chars(Utf8Decode(EscapedBytes(str)))
           \o DecodeURIComponent(SubSeq(str, (3 * Len(EscapedBytes(str))) + 1, Len(str)))
  ELSE <<str[1]>> \o DecodeURIComponent(Tail(str))

\* unescapeBuffer(str): the byte of every escape, and the low byte of every
\* other code unit (two bytes for a character above U+FFFF); a '%' that
\* starts no escape stays
RECURSIVE UnescapeBuffer(_)
UnescapeBuffer(str) ==
  IF str = <<>> THEN <<>>
  ELSE IF IsEscape(str)
    THEN <<(16 * HexVal(str[2])) + HexVal(str[3])>>
           \o UnescapeBuffer(SubSeq(str, 4, Len(str)))
  ELSE <<Ord(str[1]) % 256>> \o UnescapeBuffer(Tail(str))

\* querystring.unescape: decodeURIComponent, and when that throws
\* unescapeBuffer(str).toString()
Unescape(str) ==
  IF ~Contains(str, "%") THEN str
  ELSE IF Decodable(str) THEN DecodeURIComponent(str)
  ELSE Chars(Utf8Decode(UnescapeBuffer(str)))

\* the characters querystring.escape leaves as they are
UnreservedChars ==
  "ABCDEFGHIJKLMNOPQRSTUVWXYZabcdefghijklmnopqrstuvwxyz0123456789-_.!~*'()"

UnreservedSet ==
  {SubSeq(UnreservedChars, i, i) : i \in 1..Len(UnreservedChars)}

Unreserved(ch) == ch \in UnreservedSet

\* %XY for every byte, in upper-case hexadecimal
RECURSIVE PercentEncoded(_)
PercentEncoded(bytes) ==
  IF bytes = <<>> THEN <<>>
  ELSE <<"%", HexDigit(bytes[1] \div 16), HexDigit(bytes[1] % 16)>>
         \o PercentEncoded(Tail(bytes))

\* the code units of the surrogates, high or low
IsSurrogate(n) == n >= 55296 /\ n <= 57343

\* the code point querystring.escape makes of a surrogate c and the code unit
\* d that follows it, whatever d is: 0x10000 + (((c & 0x3FF) << 10) | (d & 0x3FF))
Paired(c, d) == 65536 + (((c % 1024) * 1024) + (d % 1024))

\* querystring.escape throws URIError: a surrogate is the last code unit and
\* is not itself taken as the second unit of a pair
RECURSIVE EscapeThrows(_)
EscapeThrows(str) ==
  IF str = <<>> THEN FALSE
  ELSE IF IsSurrogate(Ord(str[1]))
    THEN Len(str) = 1 \/ EscapeThrows(SubSeq(str, 3, Len(str)))
  ELSE EscapeThrows(Tail(str))

\* querystring.escape, for a str it does not throw on: a code unit of
\* A-Za-z0-9-_.!~*'() stays, a surrogate is encoded together with the code
\* unit that follows it, and every other code unit gives the percent-encoding
\* of its UTF-8 bytes
RECURSIVE Escape(_)
Escape(str) ==
  IF str = <<>> THEN <<>>
  ELSE IF Unreserved(str[1]) THEN <<str[1]>> \o Escape(Tail(str))
  ELSE IF ~IsSurrogate(Ord(str[1]))
    THEN PercentEncoded(Utf8Encode(Ord(str[1]))) \o Escape(Tail(str))
  ELSE IF Len(str) = 1 THEN <<>>
  ELSE PercentEncoded(Utf8Encode(Paired(Ord(str[1]), Ord(str[2]))))
         \o Escape(SubSeq(str, 3, Len(str)))

(***************************************************************************)
(* Messages of the mail provider.                                          *)
(***************************************************************************)
\* one body part: its declared media type, its attachment id, and the src
\* attributes of the <img> tags of its decoded body data
Part(mime, att, srcs) == [mimeType |-> mime, attachmentId |-> att, srcs |-> srcs]

\* message.payload: its parts and the <img> tags of its own body data
Body(parts, srcs) == [hasParts |-> TRUE, parts |-> parts, srcs |-> srcs]

\* the payload of a message that is not multipart: it has no parts field
BodyNoParts == [hasParts |-> FALSE, parts |-> <<>>, srcs |-> <<>>]

BodyPlain == Body(<<Part("text/plain", "none", <<>>)>>, <<>>)
BodyUrl == Body(<<Part("text/html", "none", <<"u1">>)>>, <<>>)
BodyMixed == Body(<<Part("image/png", "att1", <<>>), Part("text/html", "none", <<"u1">>)>>, <<>>)
Bodies == {BodyPlain, BodyUrl, BodyMixed, BodyNoParts}

NoMsg == [id |-> "none", payload |-> Body(<<>>, <<>>)]

\* results of users.messages.list: res.messages, absent when the mailbox is empty
ListResults == {<<>>, <<"m2", "m1">>}

\* one result of visionClient.labelDetection: an error indicator and the
\* descriptions of its label annotations
ClassResult(e, labels) == [error |-> e, labels |-> labels]
ClassResults ==
  {ClassResult(FALSE, <<"bird">>), ClassResult(FALSE, <<"Bird", "cat">>),
   ClassResult(TRUE, <<>>)}

(***************************************************************************)
(* Requests.                                                               *)
(***************************************************************************)
\* a remote call: the operation, the credentials of the shared client it
\* carries (the record to write, for a store write), and the id it names
Call(op, c, arg) == [op |-> op, cred |-> c, arg |-> arg, labels |-> <<>>]

\* a call that does not use the shared client: a Datastore lookup, a
\* labelDetection, the exchange of an authorization code
PlainCall(op, arg) == Call(op, EmptyCreds, arg)

\* labelMessage(messageId, labels)
ModifyCall(c, id, labels) == [op |-> "modify", cred |-> c, arg |-> id, labels |-> labels]

Response(status, location) == [status |-> status, location |-> location]

\* req.query of an initWatch request
Query(email, emailAddress) == [email |-> email, emailAddress |-> emailAddress]

\* a request: the handler (kind), the call it waits for (pc), the pipeline
\* states it went through (trail), its identity (email), what it was sent
\* (query), the error that ended it (err, thrown when it escaped the handler),
\* what it wrote to console.error (logged) and to res (resp), the remote calls
\* it issued (calls), what fetchToken read and when (looked, token, at), the
\* session it resolved (resolved, session), the record it saves (saveData)
\* and the data of its pipeline
IdleReq ==
  [kind |-> "idle", pc |-> "idle", trail |-> <<>>, email |-> NoStr,
   query |-> Query(NoStr, NoStr),
   err |-> None, thrown |-> FALSE, logged |-> <<>>, resp |-> <<>>,
   calls |-> <<>>, looked |-> FALSE, token |-> NoRecord, at |-> 0,
   resolved |-> FALSE, session |-> EmptyCreds, saveData |-> EmptyCreds,
   ids |-> <<>>, msg |-> NoMsg, images |-> <<>>, results |-> <<>>,
   labels |-> <<>>]

\* the state of the pipeline a run is in
State(r) == IF r.trail = <<>> THEN "none" ELSE r.trail[Len(r.trail)]

Enter(r, st) == [r EXCEPT !.trail = Append(@, st)]

Issue(r, pc, call) == [r EXCEPT !.pc = pc, !.calls = Append(@, call)]

\* requests take the slots in order
Free(s) == req[s].kind = "idle" /\ \A t \in 1..(s - 1) : req[t].kind # "idle"

(***************************************************************************)
(* Error handlers of the three entry points.                               *)
(***************************************************************************)
\* onNewMessage: .catch((err) => { if (!err.message || err.message !==
\* NO_LABEL_MATCH) console.error(err); })
IsLogged(e) == e = "" \/ e # NO_LABEL_MATCH

\* CatchOnNewMessage placed where the chain goes on after it
CatchOnNewMessageMidChain(r, e) ==
  [r EXCEPT !.err = e, !.logged = IF IsLogged(e) THEN Append(@, e) ELSE @]

CatchOnNewMessage(r, e) ==
  [r EXCEPT !.pc = "done", !.err = e,
            !.trail = Append(@, IF IsLogged(e) THEN "Failed" ELSE "Skipped"),
            !.logged = IF IsLogged(e) THEN Append(@, e) ELSE @]

\* CatchInitWatch without the case of the unknown user
CatchInitWatchLogsAll(r, e) ==
  [r EXCEPT !.pc = "done", !.err = e,
            !.logged = Append(@, e),
            !.resp = Append(@, Response(500, <<>>))]

\* initWatch: redirect to /oauth2init for an unknown user, else log and 500
CatchInitWatch(r, e) ==
  IF e = UNKNOWN_USER_MESSAGE
    THEN [r EXCEPT !.pc = "done", !.err = e,
                   !.resp = Append(@, Response(302, <<"/oauth2init">>))]
    ELSE [r EXCEPT !.pc = "done", !.err = e,
                   !.logged = Append(@, e),
                   !.resp = Append(@, Response(500, <<>>))]

\* oauth2callback: log and 500
CatchCallback(r, e) ==
  [r EXCEPT !.pc = "done", !.err = e,
            !.logged = Append(@, e),
            !.resp = Append(@, Response(500, <<>>))]

\* a direct call of the exported fetchToken or saveToken: the rejection is
\* the caller's
Rejected(r, e) == [r EXCEPT !.pc = "done", !.err = e]

\* a rejection of the promise chain of request r reaches its .catch
Catch(r, e) ==
  CASE r.kind = "onNewMessage" -> CatchOnNewMessage(r, e)
    [] r.kind = "initWatch" -> CatchInitWatch(r, e)
    [] r.kind \in {"fetchToken", "saveToken"} -> Rejected(r, e)
    [] OTHER -> CatchCallback(r, e)

(***************************************************************************)
(* fetchToken and saveToken.                                               *)
(***************************************************************************)
\* datastore.get(key): tokens[0], undefined when there is no entity
Lookup(st, k) == IF k \in DOMAIN st THEN st[k] ELSE NoRecord

\* Validate without the check for new users
ValidateNoUserCheck(token, t) ==
  IF token.expiry_date = 0 \/ token.expiry_date < t + Margin THEN "stale" ELSE "fresh"

\* Validate with a safety margin of two minutes
ValidateWideMargin(token, t) ==
  IF token = NoRecord THEN "unknown"
  ELSE IF token.expiry_date = 0 \/ token.expiry_date < t + 2 * Margin THEN "stale"
  ELSE "fresh"

\* if (!token) throw ...; if (!token.expiry_date || token.expiry_date <
\* Date.now() + 60000) refresh; else adopt
Validate(token, t) ==
  IF token = NoRecord THEN "unknown"
  ELSE IF token.expiry_date = 0 \/ token.expiry_date < t + Margin THEN "stale"
  ELSE "fresh"

\* oauth2Client.credentials.refresh_token =
\*   oauth2Client.credentials.refresh_token || token.refresh_token
WithRefreshToken(c, token) ==
  [c EXCEPT !.refresh_token = IF @ # NoStr THEN @ ELSE token.refresh_token]

\* Adopt that takes the access token and its expiry only
AdoptAccessOnly(token) == Cred(token.access_token, NoStr, token.expiry_date)

\* oauth2Client.credentials = token
Adopt(token) == token

\* the steps that follow a resolved fetchToken: listMessageIds in
\* onNewMessage, gmail.users.watch in initWatch, both with auth: oauth2Client
AfterSession(r, c) ==
  LET r1 == [r EXCEPT !.resolved = TRUE, !.session = c]
  IN CASE r.kind = "onNewMessage" ->
            Issue(Enter(r1, "SessionResolved"), "list", Call("list", c, "none"))
       [] r.kind = "fetchToken" -> [r1 EXCEPT !.pc = "done"]
       [] OTHER -> Issue(r1, "watch", Call("watch", c, "none"))

\* the redirect that ends oauth2callback
CallbackRedirect(email) ==
  Response(302, <<"/initWatch?emailAddress=">> \o Escape(email))

\* the step that follows a completed saveToken: the rest of fetchToken's
\* caller, or the redirect of oauth2callback
AfterSave(r, c) ==
  CASE r.kind = "oauth2callback" ->
         IF EscapeThrows(r.email)
           THEN Catch(r, URIErrorMsg)
           ELSE [r EXCEPT !.pc = "done",
                          !.resp = Append(@, CallbackRedirect(r.email))]
    [] r.kind = "saveToken" -> [r EXCEPT !.pc = "done"]
    [] OTHER -> AfterSession(r, c)

\* SaveToken whose caller does not wait for the write
SaveTokenNotAwaited(r, email, c) ==
  AfterSave([r EXCEPT !.email = email, !.saveData = c], c)

\* SaveToken that does not save
SaveTokenSkipped(r, email, c) == AfterSession([r EXCEPT !.email = email], c)

\* saveToken(emailAddress): datastore.save({key, data: oauth2Client.credentials})
SaveToken(r, email, c) ==
  Issue([r EXCEPT !.email = email, !.saveData = c], "save", Call("save", c, "none"))

\* the message of the error for a new user: the constant of index.js for the
\* fetchToken of the handlers, config's for the exported fetchToken
UnknownUserMessage(r) ==
  IF r.kind = "fetchToken" THEN CONFIG_UNKNOWN_USER_MESSAGE
  ELSE UNKNOWN_USER_MESSAGE

\* the continuation of fetchToken's datastore.get for a stored token
OnToken(r, token, c, t) ==
  CASE Validate(token, t) = "unknown" ->
         [c |-> c, r |-> Catch(r, UnknownUserMessage(r))]
    [] Validate(token, t) = "stale" ->
         LET c1 == WithRefreshToken(c, token) IN
         \* refreshAccessToken fails at once when no refresh token is set
         IF c1.refresh_token = NoStr
           THEN [c |-> c1, r |-> Catch(r, NoRefreshToken)]
           ELSE [c |-> c1, r |-> Issue(r, "refresh", Call("refresh", c1, "none"))]
    [] OTHER ->
         [c |-> Adopt(token), r |-> AfterSession(r, Adopt(token))]

\* fetchToken has read tokens[0] at time t
Read(r, token, t) == [r EXCEPT !.looked = TRUE, !.token = token, !.at = t]

\* the times the clock may show when it is read next
Clock == {now} \cup (IF ticks < MaxTicks THEN {now + TickStep} ELSE {})

\* the clock is read and shows t
ReadClock(t) ==
  /\ now' = t
  /\ ticks' = IF t = now THEN ticks ELSE ticks + 1

\* Date.now() is evaluated only for a record that has an expiry_date
ReadsClock(token) == token # NoRecord /\ token.expiry_date # 0

\* datastore.get returns to fetchToken, which reads Date.now() to validate
\* the token
LookupReturn(s) ==
  /\ req[s].pc = "lookup"
  /\ \/ \E t \in (IF ReadsClock(Lookup(store, req[s].email)) THEN Clock ELSE {now}) :
          LET token == Lookup(store, req[s].email)
              next == OnToken(Read(req[s], token, t), token, creds, t)
          IN /\ ReadClock(t)
             /\ creds' = next.c
             /\ req' = [req EXCEPT ![s] = next.r]
     \/ /\ req' = [req EXCEPT ![s] = Catch(req[s], ProviderError)]
        /\ UNCHANGED <<creds, now, ticks>>
  /\ UNCHANGED store

\* the last call request r issued
LastCall(r) == r.calls[Len(r.calls)]

\* the token endpoint's answer to a refresh: a new access token for the owner of
\* the refresh token presented; refreshAccessToken keeps the client's current
\* refresh token and replaces the credentials
Refreshed(presented, c, t) == Cred(presented, c.refresh_token, t + TokenLifetime)

\* the callback of oauth2Client.refreshAccessToken, then saveToken; the token
\* endpoint grants at time t
RefreshReturn(s) ==
  /\ req[s].pc = "refresh"
  /\ \/ \E t \in Clock :
          LET c1 == Refreshed(LastCall(req[s]).cred.refresh_token, creds, t)
          IN /\ ReadClock(t)
             /\ creds' = c1
             /\ req' = [req EXCEPT ![s] = SaveToken(req[s], req[s].email, c1)]
     \/ /\ req' = [req EXCEPT ![s] = Catch(req[s], ProviderError)]
        /\ UNCHANGED <<creds, now, ticks>>
  /\ UNCHANGED store

\* a write that leaves a record already stored as it is
WrittenIfAbsent(st, k, data) ==
  IF st[k] = NoRecord THEN [st EXCEPT ![k] = data] ELSE st

\* datastore.save({key: datastore.key(['oauth2Token', emailAddress]), data}):
\* the record under the key is replaced
Written(st, k, data) == [st EXCEPT ![k] = data]

\* datastore.save returns
SaveReturn(s) ==
  /\ req[s].pc = "save"
  /\ \E ok \in BOOLEAN :
       IF ok
         THEN /\ store' = Written(store, req[s].email, req[s].saveData)
              /\ req' = [req EXCEPT ![s] = AfterSave(req[s], creds)]
         ELSE /\ store' = store
              /\ req' = [req EXCEPT ![s] = Catch(req[s], ProviderError)]
  /\ UNCHANGED <<creds, now, ticks>>

(***************************************************************************)
(* oauth2callback.                                                         *)
(***************************************************************************)
\* a request arrives: oauth2Client.getToken(code, ...)
StartCallback(s) ==
  /\ Free(s)
  /\ req' = [req EXCEPT ![s] =
       Issue([IdleReq EXCEPT !.kind = "oauth2callback"], "getToken",
             PlainCall("getToken", "none"))]
  /\ UNCHANGED <<store, creds, now, ticks>>

\* the token granted to the user who gave consent
Granted(user, t) == Cred(user, user, t + TokenLifetime)

\* getToken returns: oauth2Client.credentials = token; getEmailAddress()
GetTokenReturn(s) ==
  /\ req[s].pc = "getToken"
  /\ \/ \E user \in Grantees, t \in Clock :
          /\ ReadClock(t)
          /\ creds' = Granted(user, t)
          /\ req' = [req EXCEPT ![s] =
               Issue(req[s], "getProfile", Call("getProfile", Granted(user, t), "none"))]
     \/ /\ req' = [req EXCEPT ![s] = Catch(req[s], ProviderError)]
        /\ UNCHANGED <<creds, now, ticks>>
  /\ UNCHANGED store

\* gmail.users.getProfile with userId 'me': the address of the owner of the
\* access token the call was made with
ProfileOf(call) == call.cred.access_token

\* getProfile returns: saveToken(emailAddress)
GetProfileReturn(s) ==
  /\ req[s].pc = "getProfile"
  /\ \E ok \in BOOLEAN :
       req' = [req EXCEPT ![s] =
         IF ok THEN SaveToken(req[s], ProfileOf(LastCall(req[s])), creds)
               ELSE Catch(req[s], ProviderError)]
  /\ UNCHANGED <<store, creds, now, ticks>>

(***************************************************************************)
(* initWatch.                                                              *)
(***************************************************************************)
\* '%' followed by U+20000: a value decodeURIComponent throws on, of which
\* unescapeBuffer keeps the low byte of each code unit, 0x25 0x40 0x00
Undecodable == <<"%", Chr(55360), Chr(56320)>>

\* req.query of the requests the model sends
Queries ==
  {Query(NoStr, UserA), Query(<<"a", "x">>, NoStr), Query(UserA, NoStr),
   Query(<<"%", "6", "2", "%", "4", "0", "x">>, NoStr),
   Query(Undecodable, NoStr)}

\* the validation at the head of initWatch: the 400 response, or none
Validation(q) ==
  IF q.email = NoStr THEN <<Response(400, <<"No emailAddress specified.">>)>>
  ELSE IF ~Contains(Unescape(q.email), "@") THEN <<Response(400, <<"Invalid emailAddress.">>)>>
  ELSE <<>>

\* the handler up to its first suspension: validation, then fetchToken(email)
BeginInitWatch(q) ==
  IF Validation(q) # <<>>
    THEN [IdleReq EXCEPT !.kind = "initWatch", !.pc = "done", !.query = q,
                         !.resp = Validation(q)]
    ELSE Issue([IdleReq EXCEPT !.kind = "initWatch", !.query = q,
                               !.email = Unescape(q.email)],
               "lookup", PlainCall("lookup", "none"))

\* a request arrives
StartInitWatch(s) ==
  /\ Free(s)
  /\ \E q \in Queries : req' = [req EXCEPT ![s] = BeginInitWatch(q)]
  /\ UNCHANGED <<store, creds, now, ticks>>

\* req.query of the request for a location: the parameter named in the
\* location, with its value percent-decoded
QueryOf(location) ==
  LET value == Unescape(Tail(location))
  IN CASE location[1] = "/initWatch?emailAddress=" -> Query(NoStr, value)
       [] location[1] = "/initWatch?email=" -> Query(value, NoStr)
       [] OTHER -> Query(NoStr, NoStr)

\* request r is an oauth2callback that has answered with its redirect
Redirected(r) ==
  r.kind = "oauth2callback" /\ r.pc = "done" /\ r.resp # <<>>
    /\ r.resp[1].status = 302

\* the client follows the redirect of a completed oauth2callback: initWatch
\* is requested at the location of the redirect
FollowRedirect(s) ==
  /\ Free(s)
  /\ \E t \in Slots :
       /\ Redirected(req[t])
       /\ req' = [req EXCEPT ![s] = BeginInitWatch(QueryOf(req[t].resp[1].location))]
  /\ UNCHANGED <<store, creds, now, ticks>>

\* gmail.users.watch returns
WatchReturn(s) ==
  /\ req[s].pc = "watch"
  /\ \E ok \in BOOLEAN :
       req' = [req EXCEPT ![s] =
         IF ok THEN [req[s] EXCEPT !.pc = "done",
                                   !.resp = Append(@, Response(200, <<>>))]
               ELSE Catch(req[s], ProviderError)]
  /\ UNCHANGED <<store, creds, now, ticks>>

(***************************************************************************)
(* Image extraction and classification.                                    *)
(***************************************************************************)
\* x.mimeType && x.mimeType.includes('image')
IsImagePart(part) ==
  /\ part.mimeType # ""
  /\ \E i \in 1..(Len(part.mimeType) - 4) :
       SubSeq(part.mimeType, i, i + 4) = "image"

\* getImageUrls: the src of every <img> of the parts' bodies, then of the
\* payload's own body
RECURSIVE PartSrcs(_)
PartSrcs(parts) ==
  IF parts = <<>> THEN <<>> ELSE parts[1].srcs \o PartSrcs(Tail(parts))

UrlImage(src) == [kind |-> "url", ref |-> src]
BlobImage(att) == [kind |-> "blob", ref |-> att]

GetImageUrls(msg) ==
  LET srcs == PartSrcs(msg.payload.parts) \o msg.payload.srcs
  IN [i \in 1..Len(srcs) |-> UrlImage(srcs[i])]

\* getImageAttachments: the attachment ids of the image parts, in part order
RECURSIVE AttachmentIds(_)
AttachmentIds(parts) ==
  IF parts = <<>> THEN <<>>
  ELSE (IF IsImagePart(parts[1]) THEN <<parts[1].attachmentId>> ELSE <<>>)
         \o AttachmentIds(Tail(parts))

\* the attachments.get calls of one message, all issued at once
AttachCalls(ids, c) == [i \in 1..Len(ids) |-> Call("attach", c, ids[i])]

\* getAllImages: urlImages.concat(base64Images)
AllImages(msg) ==
  LET ids == AttachmentIds(msg.payload.parts)
  IN GetImageUrls(msg) \o [i \in 1..Len(ids) |-> BlobImage(ids[i])]

\* Flatten that puts each list before the ones gathered so far
RECURSIVE FlattenPrepend(_)
FlattenPrepend(labelSet) ==
  IF labelSet = <<>> THEN <<>>
  ELSE FlattenPrepend(Tail(labelSet)) \o labelSet[1]

\* labelSet.reduce((x, y) => x.concat(y), [])
RECURSIVE Flatten(_)
Flatten(labelSet) ==
  IF labelSet = <<>> THEN <<>> ELSE labelSet[1] \o Flatten(Tail(labelSet))

\* ClassifyCalls that issues every request a second time
ClassifyCallsTwice(images) ==
  [i \in 1..Len(images) |-> PlainCall("classify", images[i].ref)]
    \o [i \in 1..Len(images) |-> PlainCall("classify", images[i].ref)]

\* the labelDetection calls of one image list, all issued at once
ClassifyCalls(images) ==
  [i \in 1..Len(images) |-> PlainCall("classify", images[i].ref)]

\* getLabelsForImages(images): one request per image; with no image,
\* Promise.all([]) resolves at once and results[0].error throws a TypeError
StartClassify(r, images) ==
  LET r1 == Enter([r EXCEPT !.images = images], "ImagesExtracted")
  IN IF images = <<>>
       THEN Catch(r1, TypeErrorMsg)
       ELSE [r1 EXCEPT !.pc = "classify", !.calls = @ \o ClassifyCalls(images)]

\* Matches that ignores the case of the first letter
MatchesAnyCase(labels) == Includes(labels, "bird") \/ Includes(labels, "Bird")

\* labels.includes('bird')
Matches(labels) == Includes(labels, TARGET_LABEL)

\* the last step of the chain: throw NO_LABEL_MATCH, or labelMessage
OnLabels(r, labels, c) ==
  LET r1 == Enter([r EXCEPT !.labels = labels], "Labeled")
  IN IF ~Matches(labels)
       THEN Catch(r1, NO_LABEL_MATCH)
       ELSE Issue(r1, "modify", ModifyCall(c, r.msg.id, <<STARRED>>))

(***************************************************************************)
(* onNewMessage.                                                           *)
(***************************************************************************)
\* a Pub/Sub event: whether event.data.data decodes to JSON, and the
\* emailAddress of the decoded object
Event(valid, email) == [valid |-> valid, emailAddress |-> email]

Events == {Event(FALSE, NoStr)} \cup {Event(TRUE, i) : i \in Identities}

\* the handler up to its first suspension: JSON.parse outside the promise
\* chain, then fetchToken(dataObj.emailAddress)
Begin(ev) ==
  LET r == Enter([IdleReq EXCEPT !.kind = "onNewMessage"], "Start")
  IN IF ~ev.valid
       THEN [r EXCEPT !.pc = "done", !.err = SyntaxErrorMsg, !.thrown = TRUE]
       ELSE Issue([r EXCEPT !.email = ev.emailAddress], "lookup",
                  PlainCall("lookup", "none"))

StartOnNewMessage(s) ==
  /\ Free(s)
  /\ \E ev \in Events : req' = [req EXCEPT ![s] = Begin(ev)]
  /\ UNCHANGED <<store, creds, now, ticks>>

\* OnList with the session of the run in place of the shared client
OnListOwnSession(r, ids, c) ==
  LET r1 == Enter([r EXCEPT !.ids = ids], "MessageListed")
  IN IF ids = <<>>
       THEN Catch(r1, TypeErrorMsg)
       ELSE Issue(r1, "get", Call("get", r.session, ids[1]))

\* OnList that takes the last message of the list
OnListLast(r, ids, c) ==
  LET r1 == Enter([r EXCEPT !.ids = ids], "MessageListed")
  IN IF ids = <<>>
       THEN Catch(r1, TypeErrorMsg)
       ELSE Issue(r1, "get", Call("get", c, ids[Len(ids)]))

\* res => getMessageById(res.messages[0].id)
OnList(r, ids, c) ==
  LET r1 == Enter([r EXCEPT !.ids = ids], "MessageListed")
  IN IF ids = <<>>
       THEN Catch(r1, TypeErrorMsg)
       ELSE Issue(r1, "get", Call("get", c, ids[1]))

\* users.messages.list returns, with a list result of L or an error
ListReturnOf(s, L) ==
  /\ req[s].pc = "list"
  /\ \/ \E ids \in L : req' = [req EXCEPT ![s] = OnList(req[s], ids, creds)]
     \/ req' = [req EXCEPT ![s] = Catch(req[s], ProviderError)]
  /\ UNCHANGED <<store, creds, now, ticks>>

ListReturn(s) == ListReturnOf(s, ListResults)

\* msg => Promise.all([msg, getAllImages(msg)]): message.payload.parts.map
\* throws a TypeError when the payload has no parts; else the attachment
\* fetches are issued; with no image part the chain goes on to
\* getLabelsForImages
OnMessage(r, msg, c) ==
  LET r1 == Enter([r EXCEPT !.msg = msg], "MessageFetched")
      ids == AttachmentIds(msg.payload.parts)
  IN IF ~msg.payload.hasParts
       THEN Catch(r1, TypeErrorMsg)
       ELSE IF ids = <<>>
         THEN StartClassify(r1, AllImages(msg))
         ELSE [r1 EXCEPT !.pc = "attach", !.calls = @ \o AttachCalls(ids, c)]

\* users.messages.get returns the message asked for, with a payload of B, or
\* an error
GetReturnOf(s, B) ==
  /\ req[s].pc = "get"
  /\ \/ \E body \in B :
          req' = [req EXCEPT ![s] =
            OnMessage(req[s], [id |-> LastCall(req[s]).arg, payload |-> body], creds)]
     \/ req' = [req EXCEPT ![s] = Catch(req[s], ProviderError)]
  /\ UNCHANGED <<store, creds, now, ticks>>

GetReturn(s) == GetReturnOf(s, Bodies)

\* Promise.all of the attachment fetches settles
AttachReturn(s) ==
  /\ req[s].pc = "attach"
  /\ \E ok \in BOOLEAN :
       req' = [req EXCEPT ![s] =
         IF ok THEN StartClassify(req[s], AllImages(req[s].msg))
               ELSE Catch(req[s], ProviderError)]
  /\ UNCHANGED <<store, creds, now, ticks>>

\* results.map(result => result[0].labelAnnotations.map(label =>
\* label.description))
LabelSet(results) == [i \in 1..Len(results) |-> results[i].labels]

\* OnResults that fails on an error indicator of any result
OnResultsAnyError(r, results, c) ==
  LET r1 == [r EXCEPT !.results = results]
  IN IF \E i \in 1..Len(results) : results[i].error
       THEN Catch(r1, VisionErrorMsg)
       ELSE OnLabels(r1, Flatten(LabelSet(results)), c)

\* the .then callbacks of getLabelsForImages
OnResults(r, results, c) ==
  LET r1 == [r EXCEPT !.results = results]
  IN IF results[1].error
       THEN Catch(r1, VisionErrorMsg)
       ELSE OnLabels(r1, Flatten(LabelSet(results)), c)

\* Promise.all of the labelDetection requests settles, with results of R or
\* a rejection
ClassifyReturnOf(s, R) ==
  /\ req[s].pc = "classify"
  /\ \/ \E results \in [1..Len(req[s].images) -> R] :
          req' = [req EXCEPT ![s] = OnResults(req[s], results, creds)]
     \/ req' = [req EXCEPT ![s] = Catch(req[s], ProviderError)]
  /\ UNCHANGED <<store, creds, now, ticks>>

ClassifyReturn(s) == ClassifyReturnOf(s, ClassResults)

\* users.messages.modify returns
ModifyReturn(s) ==
  /\ req[s].pc = "modify"
  /\ \E ok \in BOOLEAN :
       req' = [req EXCEPT ![s] =
         IF ok THEN [Enter(req[s], "Mutated") EXCEPT !.pc = "done"]
               ELSE Catch(req[s], ProviderError)]
  /\ UNCHANGED <<store, creds, now, ticks>>

(***************************************************************************)
(* Environment steps and the specification.                                *)
(***************************************************************************)
Init ==
  /\ store \in {st \in [Grantees -> UNION {InitRecords(i) : i \in Grantees}] :
                  \A i \in Grantees : st[i] \in InitRecords(i)}
  /\ creds = EmptyCreds
  /\ now = T0
  /\ ticks = 0
  /\ req = [s \in Slots |-> IdleReq]

Next ==
  \/ \E s \in Slots : StartCallback(s)
  \/ \E s \in Slots : GetTokenReturn(s)
  \/ \E s \in Slots : GetProfileReturn(s)
  \/ \E s \in Slots : StartInitWatch(s)
  \/ \E s \in Slots : FollowRedirect(s)
  \/ \E s \in Slots : WatchReturn(s)
  \/ \E s \in Slots : StartOnNewMessage(s)
  \/ \E s \in Slots : LookupReturn(s)
  \/ \E s \in Slots : RefreshReturn(s)
  \/ \E s \in Slots : SaveReturn(s)
  \/ \E s \in Slots : ListReturn(s)
  \/ \E s \in Slots : GetReturn(s)
  \/ \E s \in Slots : AttachReturn(s)
  \/ \E s \in Slots : ClassifyReturn(s)
  \/ \E s \in Slots : ModifyReturn(s)

Spec == Init /\ [][Next]_vars

(***************************************************************************)
(* The exported fetchToken and saveToken of lib/oauth.js, called directly;  *)
(* creds is the credentials of the client of that module (exports.client). *)
(***************************************************************************)
\* exports.fetchToken(emailAddress) up to its datastore.get
StartFetchToken(s) ==
  /\ Free(s)
  /\ \E i \in Identities :
       req' = [req EXCEPT ![s] =
         Issue([IdleReq EXCEPT !.kind = "fetchToken", !.email = i], "lookup",
               PlainCall("lookup", "none"))]
  /\ UNCHANGED <<store, creds, now, ticks>>

\* exports.saveToken(emailAddress): datastore.save of the credentials the
\* client holds
StartSaveToken(s) ==
  /\ Free(s)
  /\ \E i \in Identities :
       req' = [req EXCEPT ![s] =
         SaveToken([IdleReq EXCEPT !.kind = "saveToken"], i, creds)]
  /\ UNCHANGED <<store, creds, now, ticks>>

NextLib ==
  \/ \E s \in Slots : StartFetchToken(s)
  \/ \E s \in Slots : StartSaveToken(s)
  \/ \E s \in Slots : LookupReturn(s)
  \/ \E s \in Slots : RefreshReturn(s)
  \/ \E s \in Slots : SaveReturn(s)

SpecLib == Init /\ [][NextLib]_vars

(***************************************************************************)
(* Properties.                                                             *)
(***************************************************************************)
\* the number of calls of operation op that request r has issued
NumCalls(r, op) == Cardinality({i \in 1..Len(r.calls) : r.calls[i].op = op})

\* the operations of the calls of request r, in the order of issue
Ops(r) == [i \in 1..Len(r.calls) |-> r.calls[i].op]

\* request r runs fetchToken
Resolves(r) == r.kind \in {"initWatch", "onNewMessage", "fetchToken"}

\* C1: when fetchToken finds no record under the identity, the resolution
\* fails with the error 'Uninitialized email address', and the request has
\* issued no token refresh (and no store write): its only call is the lookup.
C1_UnknownIdentityFails ==
  \A s \in Slots :
    (Resolves(req[s]) /\ req[s].looked /\ req[s].token = NoRecord)
      => /\ req[s].pc = "done"
         /\ req[s].err = UNKNOWN_USER_MESSAGE
         /\ ~req[s].resolved
         /\ Ops(req[s]) = <<"lookup">>

C1_Witness ==
  \E s \in Slots :
    /\ req[s].kind = "onNewMessage" /\ req[s].looked /\ req[s].token = NoRecord
    /\ req[s].err = UNKNOWN_USER_MESSAGE
    /\ creds # EmptyCreds

\* C2: when the record fetchToken reads expires more than 60 seconds after
\* the time of the read, the request issues no refresh call and no store
\* write, and the session is resolved with that record.
C2_FreshNeverRefreshes ==
  \A s \in Slots :
    (Resolves(req[s]) /\ req[s].looked /\ req[s].token # NoRecord
       /\ req[s].token.expiry_date > req[s].at + 60000)
      => /\ NumCalls(req[s], "refresh") = 0
         /\ NumCalls(req[s], "save") = 0
         /\ req[s].resolved
         /\ req[s].session = req[s].token

C2_Witness ==
  \E s \in Slots :
    /\ req[s].kind = "onNewMessage" /\ req[s].looked /\ req[s].token # NoRecord
    /\ req[s].token.expiry_date > req[s].at + 60000
    /\ req[s].at > T0
    /\ req[s].pc = "done" /\ req[s].err = None

\* the record request r read had expired when it was read
ReadExpired(r) ==
  r.looked /\ r.token # NoRecord /\ r.token.expiry_date # 0 /\ r.token.expiry_date < r.at

\* C3, in every state: a resolution that succeeded on an expired record has
\* issued the lookup, then one refresh, then one store write, before any
\* other call; a resolution whose refresh failed has issued no store write.
C3_Calls ==
  \A s \in Slots :
    (Resolves(req[s]) /\ ReadExpired(req[s]))
      => /\ req[s].resolved =>
              /\ NumCalls(req[s], "refresh") = 1
              /\ NumCalls(req[s], "save") = 1
              /\ SubSeq(Ops(req[s]), 1, 3) = <<"lookup", "refresh", "save">>
         /\ NumCalls(req[s], "save") = 0 => ~req[s].resolved
         /\ NumCalls(req[s], "refresh") <= 1 /\ NumCalls(req[s], "save") <= 1

\* C3, in every step: the resolution succeeds in the step in which the store
\* write returns, with the written record in the store under the identity;
\* the step in which the refresh fails ends the request and leaves the store
\* as it is.
C3_Step ==
  \A s \in Slots :
    (Resolves(req[s]) /\ ReadExpired(req[s]))
      => /\ (~req[s].resolved /\ req'[s].resolved)
              => /\ req[s].pc = "save"
                 /\ store'[req[s].email] = req[s].saveData
                 /\ req[s].saveData = LET i == CHOOSE i \in 1..Len(req[s].calls) :
                                                req[s].calls[i].op = "save"
                                      IN req[s].calls[i].cred
         /\ (req[s].pc = "refresh" /\ req'[s].err # None)
              => /\ req'[s].pc = "done" /\ ~req'[s].resolved
                 /\ store' = store
                 /\ NumCalls(req'[s], "save") = 0

\* C3: for a record that had expired when fetchToken read it, a successful
\* resolution has issued exactly one refresh and exactly one store write, both
\* completed before it succeeds; a failed refresh means no write and a failed
\* resolution.
C3_ExpiredRefreshesOnce == [] C3_Calls /\ [][C3_Step]_vars

C3_Witness ==
  \E s \in Slots :
    /\ req[s].kind = "onNewMessage" /\ ReadExpired(req[s]) /\ req[s].resolved
    /\ req[s].pc = "done" /\ req[s].err = None
    /\ store[req[s].email] = req[s].saveData

\* the pipeline states request r went through
Reached(r, st) == Includes(r.trail, st)

\* C4: a run that has reached Labeled has issued the modify call, once, for
\* the id of the message it fetched and with the label 'STARRED', exactly when
\* its flattened label list contains the string 'bird'; when it does not, the
\* run has ended in Skipped and has issued no modify call.
C4_ModifyIffBird ==
  \A s \in Slots :
    (req[s].kind = "onNewMessage" /\ Reached(req[s], "Labeled"))
      => IF Includes(req[s].labels, "bird")
           THEN /\ NumCalls(req[s], "modify") = 1
                /\ \E i \in 1..Len(req[s].calls) :
                     /\ req[s].calls[i].op = "modify"
                     /\ req[s].calls[i].arg = req[s].msg.id
                     /\ req[s].calls[i].arg = req[s].ids[1]
                     /\ req[s].calls[i].labels = <<"STARRED">>
           ELSE /\ NumCalls(req[s], "modify") = 0
                /\ req[s].pc = "done"
                /\ State(req[s]) = "Skipped"

C4_Witness ==
  /\ \E s \in Slots :
       /\ req[s].kind = "onNewMessage" /\ State(req[s]) = "Mutated"
       /\ req[s].labels = <<"Bird", "cat", "bird">>
  /\ \E s \in Slots :
       /\ req[s].kind = "onNewMessage" /\ State(req[s]) = "Skipped"
       /\ req[s].labels = <<"Bird", "cat">>

\* C5, in every step: a request that has failed issues no further call.
C5_Step ==
  \A s \in Slots : req[s].err # None => req'[s].calls = req[s].calls

\* C5, in every state: a run that failed and has issued a modify call failed
\* in that call, the last of the run.
C5_Modify ==
  \A s \in Slots :
    (req[s].kind = "onNewMessage" /\ req[s].err # None /\ NumCalls(req[s], "modify") > 0)
      => /\ req[s].err # NO_LABEL_MATCH
         /\ State(req[s]) = "Failed"
         /\ Reached(req[s], "Labeled")
         /\ req[s].calls[Len(req[s].calls)].op = "modify"

\* C5: once a step of an onNewMessage run has failed (the no-match sentinel
\* included), the run issues no remote call; no modify call is issued in a run
\* in which an earlier step failed.
C5_FailureStopsTheRun == [] C5_Modify /\ [][C5_Step]_vars

C5_Witness ==
  \E s \in Slots :
    /\ req[s].kind = "onNewMessage" /\ req[s].pc = "done"
    /\ req[s].err = VisionErrorMsg
    /\ Len(req[s].images) = 2
    /\ NumCalls(req[s], "classify") = 2 /\ NumCalls(req[s], "modify") = 0

\* C6 as claimed: every onNewMessage run that ended on an error other than
\* the sentinel, a failure to decode the event included, is in Failed and has
\* logged the error; a run that ended on the sentinel is in Skipped and has
\* logged nothing.
C6_ErrorsLoggedExceptSentinel ==
  \A s \in Slots :
    (req[s].kind = "onNewMessage" /\ req[s].err # None)
      => IF req[s].err = NO_LABEL_MATCH
           THEN State(req[s]) = "Skipped" /\ req[s].logged = <<>>
           ELSE State(req[s]) = "Failed" /\ req[s].logged = <<req[s].err>>

\* C7 as claimed: no request logs the error of the unknown user.
C7_UnknownNeverLogged ==
  \A s \in Slots :
    req[s].err = UNKNOWN_USER_MESSAGE => ~Includes(req[s].logged, UNKNOWN_USER_MESSAGE)

\* C7, amended: initWatch never logs the error of the unknown user (it
\* redirects to the authorization endpoint); onNewMessage logs it, as it logs
\* every error but the sentinel, and ends in Failed.
C7_UnknownLoggedOnlyByOnNewMessage ==
  \A s \in Slots :
    req[s].err = UNKNOWN_USER_MESSAGE
      => /\ req[s].kind \in {"initWatch", "onNewMessage"}
         /\ req[s].kind = "initWatch"
              => /\ req[s].logged = <<>>
                 /\ req[s].resp = <<Response(302, <<"/oauth2init">>)>>
         /\ req[s].kind = "onNewMessage"
              => /\ req[s].logged = <<UNKNOWN_USER_MESSAGE>>
                 /\ State(req[s]) = "Failed"

C7_Witness ==
  /\ \E s \in Slots : req[s].kind = "initWatch" /\ req[s].err = UNKNOWN_USER_MESSAGE
  /\ \E s \in Slots : req[s].kind = "onNewMessage" /\ req[s].err = UNKNOWN_USER_MESSAGE

\* an '@' occurs in the identity parameter, as it was received or in its
\* percent-decoding where it has one
NamesAt(str) ==
  Contains(str, "@") \/ (Decodable(str) /\ Contains(DecodeURIComponent(str), "@"))

\* the identity parameter of an initWatch request is missing or contains no '@'
Invalid(r) == r.query.email = NoStr \/ ~NamesAt(r.query.email)

\* C8, in every state: an initWatch request has sent exactly one response when
\* it has ended and none before; the response is 400, with no call issued,
\* exactly when the identity parameter is missing or contains no '@' (neither
\* as received nor percent-decoded); a redirect to
\* /oauth2init exactly when the lookup found no record; 200 exactly when the
\* session was resolved and the watch call succeeded; 500 on every other
\* failure; and a watch call is the last call, issued with the session resolved.
C8_State ==
  \A s \in Slots :
    req[s].kind = "initWatch"
      => /\ Len(req[s].resp) = (IF req[s].pc = "done" THEN 1 ELSE 0)
         /\ Invalid(req[s]) =>
              /\ req[s].pc = "done"
              /\ req[s].resp[1].status = 400
              /\ req[s].calls = <<>>
         /\ (req[s].pc = "done" /\ ~Invalid(req[s])) =>
              /\ req[s].resp[1].status \in {200, 302, 500}
              /\ req[s].resp[1].status = 302
                   <=> (req[s].looked /\ req[s].token = NoRecord)
              /\ req[s].resp[1].status = 302
                   => req[s].resp[1] = Response(302, <<"/oauth2init">>)
              /\ req[s].resp[1].status = 200
                   <=> (req[s].resolved /\ req[s].err = None
                          /\ NumCalls(req[s], "watch") = 1)
              /\ req[s].resp[1].status = 500
                   <=> (req[s].err # None /\ ~(req[s].looked /\ req[s].token = NoRecord))
         /\ NumCalls(req[s], "watch") > 0 =>
              /\ req[s].resolved
              /\ NumCalls(req[s], "watch") = 1
              /\ req[s].calls[Len(req[s].calls)].op = "watch"

\* C8, in every step: the watch call is issued in the step in which the
\* session resolution succeeds, never before it.
C8_Step ==
  \A s \in Slots :
    (req'[s].kind = "initWatch" /\ NumCalls(req'[s], "watch") > NumCalls(req[s], "watch"))
      => /\ req[s].pc \in {"lookup", "save"}
         /\ ~req[s].resolved /\ req'[s].resolved
         /\ req'[s].calls[Len(req'[s].calls)].cred = creds'

\* C8: every initWatch request produces exactly one response, 400, a redirect
\* to the authorization endpoint, 200 or 500 as above, and issues the watch
\* call only after the session resolution has succeeded.
C8_InitWatchResponses == [] C8_State /\ [][C8_Step]_vars

\* an initWatch request whose identity parameter holds no '@' has issued the
\* store lookup, for the key querystring.unescape made of the parameter
C8_LookupWithoutAt ==
  \E s \in Slots :
    /\ req[s].kind = "initWatch"
    /\ req[s].query.email = Undecodable
    /\ req[s].email = <<"%", "@", Chr(0)>>
    /\ NumCalls(req[s], "lookup") = 1
    /\ req[s].resp # <<>> /\ req[s].resp[1].status = 302

\* the three calls of oauth2callback, in order
CallbackOps == <<"getToken", "getProfile", "save">>

\* C9, in every state: the calls of an oauth2callback request are the code
\* exchange, the identity lookup and the store write, in that order; it has
\* answered once when it has ended; a redirect means that all three calls
\* were made and none failed; a failure means the response 500.
C9_State ==
  \A s \in Slots :
    req[s].kind = "oauth2callback"
      => /\ Len(req[s].calls) <= 3
         /\ Ops(req[s]) = SubSeq(CallbackOps, 1, Len(req[s].calls))
         /\ Len(req[s].resp) = (IF req[s].pc = "done" THEN 1 ELSE 0)
         /\ req[s].pc = "done" =>
              IF req[s].err = None
                THEN /\ req[s].resp[1].status = 302
                     /\ Ops(req[s]) = CallbackOps
                     /\ req[s].email = req[s].calls[2].cred.access_token
                ELSE req[s].resp = <<Response(500, <<>>)>>

\* C9, in every step: the redirect is sent in the step in which the store write
\* returns, with the record in the store under the identity; a request that has
\* failed issues no further call.
C9_Step ==
  \A s \in Slots :
    req[s].kind = "oauth2callback"
      => /\ (req[s].resp = <<>> /\ req'[s].resp # <<>> /\ req'[s].resp[1].status = 302)
              => /\ req[s].pc = "save"
                 /\ store'[req[s].email] = req[s].saveData
                 /\ req[s].saveData = req[s].calls[3].cred
         /\ req[s].err # None => req'[s] = req[s]

\* C9: oauth2callback exchanges the code, looks the identity up, writes the
\* store and redirects, in that order; the redirect follows the successful
\* write, and a failure of an earlier step gives 500, no redirect and no
\* later step.
C9_CallbackOrder == [] C9_State /\ [][C9_Step]_vars

C9_Witness ==
  /\ \E s \in Slots :
       /\ req[s].kind = "oauth2callback" /\ req[s].pc = "done"
       /\ req[s].email = UserT
       /\ req[s].resp[1] =
            Response(302, <<"/initWatch?emailAddress=", "t", "%", "F", "0",
                            "%", "9", "0", "%", "8", "1", "%", "8", "0", "x">>)
       /\ store[req[s].email] = req[s].saveData
  /\ \E s \in Slots :
       /\ req[s].kind = "oauth2callback" /\ req[s].pc = "done"
       /\ req[s].err = ProviderError /\ Ops(req[s]) = CallbackOps

\* the calls to the mail provider
MailOps == {"list", "get", "attach", "modify"}

\* C10, in every step: a call to the mail provider carries the credentials the
\* shared client holds when the call is issued, whatever session the run of
\* the call resolved.
C10_Step ==
  \A s \in Slots :
    \A i \in (Len(req[s].calls) + 1)..Len(req'[s].calls) :
      req'[s].calls[i].op \in MailOps => req'[s].calls[i].cred = creds'

\* C10: mail calls are authorized by the shared session context as it is at
\* the time of the call, so that (witness) a call of a run for one identity is
\* issued while the context holds the credentials a concurrent run resolved
\* for another identity.
C10_MailCallsUseSharedContext == [][C10_Step]_vars

C10_Witness ==
  \E s, t \in Slots :
    /\ req[s].kind = "onNewMessage" /\ req[t].kind = "onNewMessage"
    /\ req[s].email = UserA /\ req[t].email = UserB
    /\ req[s].resolved /\ req[t].resolved
    /\ req[s].session = Cred(UserA, UserA, T0 + Margin + 1)
    /\ req[t].session = Cred(UserB, UserB, T0 + Margin + 1)
    /\ \E i \in 1..Len(req[s].calls) :
         /\ req[s].calls[i].op \in MailOps
         /\ req[s].calls[i].cred = req[t].session
    /\ req[t].pc # "done"

\* the record request r read was stale when it was read: no expiry date, or
\* one earlier than 60 seconds after the read
ReadStale(r) ==
  r.looked /\ r.token # NoRecord
    /\ (r.token.expiry_date = 0 \/ r.token.expiry_date < r.at + 60000)

\* C11 as claimed: the refresh token a resolution presents to the token
\* endpoint is the refresh_token of the stale record it read, whatever the
\* shared client held before.
C11_RefreshPresentsStoredToken ==
  \A s \in Slots :
    (Resolves(req[s]) /\ ReadStale(req[s]))
      => \A i \in 1..Len(req[s].calls) :
           req[s].calls[i].op = "refresh"
             => req[s].calls[i].cred.refresh_token = req[s].token.refresh_token

\* C12, in every step: when a resolution succeeds on a fresh record, without a
\* refresh, the credentials of the shared client are that record, the one
\* stored under the identity, field for field.
C12_Step ==
  \A s \in Slots :
    (Resolves(req'[s]) /\ ~req[s].resolved /\ req'[s].resolved
       /\ NumCalls(req'[s], "refresh") = 0)
      => /\ req[s].pc = "lookup"
         /\ creds' = Lookup(store, req[s].email)
         /\ creds' = req'[s].token
         /\ req'[s].session = creds'

\* C12: after fetchToken succeeds on a fresh stored record, the credentials of
\* the shared session context are exactly that record; nothing of the
\* previous session is retained.
C12_FreshRecordReplacesSession == [][C12_Step]_vars

C12_Witness ==
  \E s, t \in Slots :
    /\ req[t].pc = "done" /\ req[t].resolved /\ req[t].email = UserB
    /\ req[t].session = Cred(UserB, UserB, T0 + Margin + 1)
    /\ req[s].kind = "onNewMessage" /\ req[s].email = UserA
    /\ req[s].resolved /\ NumCalls(req[s], "refresh") = 0
    /\ req[s].token = Cred(UserA, UserA, T0 + Margin + 1)
    /\ creds = req[s].token

(***************************************************************************)
(* Serialized requests: a request starts only when no other is in flight.  *)
(***************************************************************************)
Quiet == \A t \in Slots : req[t].pc \in {"idle", "done"}

NextSerial ==
  \/ \E s \in Slots : Quiet /\ StartCallback(s)
  \/ \E s \in Slots : GetTokenReturn(s)
  \/ \E s \in Slots : GetProfileReturn(s)
  \/ \E s \in Slots : Quiet /\ StartInitWatch(s)
  \/ \E s \in Slots : Quiet /\ FollowRedirect(s)
  \/ \E s \in Slots : WatchReturn(s)
  \/ \E s \in Slots : Quiet /\ StartOnNewMessage(s)
  \/ \E s \in Slots : LookupReturn(s)
  \/ \E s \in Slots : RefreshReturn(s)
  \/ \E s \in Slots : SaveReturn(s)
  \/ \E s \in Slots : ListReturn(s)
  \/ \E s \in Slots : GetReturn(s)
  \/ \E s \in Slots : AttachReturn(s)
  \/ \E s \in Slots : ClassifyReturn(s)
  \/ \E s \in Slots : ModifyReturn(s)

SpecSerial == Init /\ [][NextSerial]_vars

\* the calls made against the mail provider with auth: oauth2Client by a
\* request whose identity is known when it resolves the session
SessionMailOps == MailOps \cup {"watch"}

\* C13: when no two requests overlap, every mail call issued in a request for
\* identity I carries credentials that belong to I
C13_SerialMailCallsUseOwnCredentials ==
  \A s \in Slots :
    Resolves(req[s])
      => \A i \in 1..Len(req[s].calls) :
           req[s].calls[i].op \in SessionMailOps
             => req[s].calls[i].cred.access_token = req[s].email

\* token material issued for identity i, or none
IssuedFor(i) == {i, NoStr}

\* C14: in every reachable state the record stored under key I holds only
\* token material issued for I
C14_RecordsHoldOwnTokens ==
  \A i \in Identities :
    store[i] # NoRecord
      => /\ store[i].access_token \in IssuedFor(i)
         /\ store[i].refresh_token \in IssuedFor(i)

\* a save of request s completes successfully in this step
Saves(s) == req[s].pc = "save" /\ req'[s].pc # "save" /\ req'[s].err = None

C15_Step ==
  \A s \in Slots :
    Saves(s)
      => /\ store'[req[s].email] = req[s].saveData
         /\ \A i \in Identities \ {req[s].email} : store'[i] = store[i]

\* C15: every completed write replaces the record under its key with the
\* data of that write, whatever another request wrote there before: of two
\* racing refreshes the record left is the one written last
C15_LastWriteWins == [][C15_Step]_vars

\* two requests for a@x both read the same stale record, both refreshed and
\* both wrote; the store holds the record of one, which differs from the
\* other's
C15_Witness ==
  \E s, t \in Slots :
    /\ s # t
    /\ \A u \in {s, t} :
         /\ Resolves(req[u]) /\ req[u].email = UserA
         /\ req[u].token = Cred(UserA, UserA, T0 - 1)
         /\ NumCalls(req[u], "refresh") = 1 /\ NumCalls(req[u], "save") = 1
         /\ req[u].resolved
    /\ req[s].saveData # req[t].saveData
    /\ store[UserA] = req[t].saveData

(***************************************************************************)
(* One onNewMessage run over a wider range of provider answers.            *)
(***************************************************************************)
\* list results of one, two and three messages, most recent first
WideListResults == ListResults \cup {<<"m1">>, <<"m3", "m2", "m1">>}

\* an image part before an html part whose body has the same <img> twice
BodyThree ==
  Body(<<Part("image/gif", "att1", <<>>),
         Part("text/html", "none", <<"u1", "u1">>)>>, <<>>)

\* an <img> in a part and another in the payload's own body
BodyOwnData == Body(<<Part("text/html", "none", <<"u1">>)>>, <<"u2">>)

WideBodies == Bodies \cup {BodyThree, BodyOwnData}

WideClassResults ==
  ClassResults \cup {ClassResult(FALSE, <<"cat">>), ClassResult(TRUE, <<"bird">>)}

\* the slot of the run
Run == 1

NextRun ==
  \/ StartOnNewMessage(Run)
  \/ LookupReturn(Run)
  \/ RefreshReturn(Run)
  \/ SaveReturn(Run)
  \/ ListReturnOf(Run, WideListResults)
  \/ GetReturnOf(Run, WideBodies)
  \/ AttachReturn(Run)
  \/ ClassifyReturnOf(Run, WideClassResults)
  \/ ModifyReturn(Run)

SpecRun == Init /\ [][NextRun]_vars

\* the .then callbacks of getLabelsForImages have run in request r
Classified(r) == r.results # <<>>

\* C16: in getLabelsForImages an error indicator on the first result makes
\* the whole call fail whatever the other results are, and an error indicator
\* on another result does not: the labels of all results are returned
C16_OnlyFirstErrorFails ==
  \A s \in Slots :
    Classified(req[s])
      => IF req[s].results[1].error
           THEN /\ req[s].err = VisionErrorMsg
                /\ ~Reached(req[s], "Labeled")
                /\ req[s].labels = <<>>
                /\ NumCalls(req[s], "modify") = 0
           ELSE /\ req[s].err # VisionErrorMsg
                /\ Reached(req[s], "Labeled")
                /\ \A i \in 1..Len(req[s].results) :
                     \A j \in 1..Len(req[s].results[i].labels) :
                       Includes(req[s].labels, req[s].results[i].labels[j])

\* the second and third results carry an error indicator, the first does
\* not, and the call returned the labels of all three
C16_Witness ==
  /\ Len(req[Run].results) = 3
  /\ ~req[Run].results[1].error
  /\ req[Run].results[1].labels = <<"cat">>
  /\ req[Run].results[2] = ClassResult(TRUE, <<"bird">>)
  /\ req[Run].results[3].error
  /\ Reached(req[Run], "Mutated")

\* the number of labels of the first n lists of ls
RECURSIVE SumLen(_, _)
SumLen(ls, n) == IF n = 0 THEN 0 ELSE Len(ls[n]) + SumLen(ls, n - 1)

\* C17: the label list getLabelsForImages returns is the concatenation of
\* the per-image label lists in image order, each in provider order,
\* duplicates kept: its length is the sum of their lengths and the j-th
\* label of image i stands after all labels of the images before i
C17_FlattenKeepsOrder ==
  \A s \in Slots :
    Reached(req[s], "Labeled")
      => LET ls == [i \in 1..Len(req[s].results) |-> req[s].results[i].labels]
         IN /\ Len(ls) = Len(req[s].images)
            /\ Len(req[s].labels) = SumLen(ls, Len(ls))
            /\ \A i \in 1..Len(ls) : \A j \in 1..Len(ls[i]) :
                 req[s].labels[SumLen(ls, i - 1) + j] = ls[i][j]

\* [[Bird, cat], [cat]] gives [Bird, cat, cat]
C17_Witness ==
  /\ Len(req[Run].results) = 2
  /\ req[Run].results[1].labels = <<"Bird", "cat">>
  /\ req[Run].results[2].labels = <<"cat">>
  /\ req[Run].labels = <<"Bird", "cat", "cat">>

\* the number of parts of a message whose media type contains 'image'
NumImageParts(msg) ==
  Cardinality({i \in 1..Len(msg.payload.parts) : IsImagePart(msg.payload.parts[i])})

\* the <img> tags of a message, in document order
Srcs(msg) == PartSrcs(msg.payload.parts) \o msg.payload.srcs

\* the image parts of a message, in part order
ImageParts(msg) == SelectSeq(msg.payload.parts, IsImagePart)

\* C18: getAllImages returns the URL of every <img> first, then one image
\* per image part, in order and with duplicates; it fetches one attachment
\* per image part; for a message with no image part and no <img> it returns
\* the empty list and fetches no attachment
C18_UrlsThenAttachments ==
  \A s \in Slots :
    Reached(req[s], "MessageFetched")
      => LET msg == req[s].msg
             n == Len(Srcs(msg))
             k == NumImageParts(msg)
         IN /\ NumCalls(req[s], "attach") = k
            /\ (n = 0 /\ k = 0) => /\ Reached(req[s], "ImagesExtracted")
                                   /\ req[s].images = <<>>
                                   /\ NumCalls(req[s], "attach") = 0
            /\ Reached(req[s], "ImagesExtracted")
                 => /\ Len(req[s].images) = n + k
                    /\ \A i \in 1..n : req[s].images[i] = UrlImage(Srcs(msg)[i])
                    /\ \A i \in 1..k :
                         req[s].images[n + i] = BlobImage(ImageParts(msg)[i].attachmentId)

\* C19: a run that fetches a message fetches exactly one, the first of the
\* list result whatever its length; with no message in the list result the
\* run ends in Failed and fetches none
C19_FetchesFirstOfList ==
  \A s \in Slots :
    (req[s].kind = "onNewMessage" /\ Reached(req[s], "MessageListed"))
      => /\ NumCalls(req[s], "get") <= 1
         /\ \A i \in 1..Len(req[s].calls) :
              req[s].calls[i].op = "get" => req[s].calls[i].arg = req[s].ids[1]
         /\ Reached(req[s], "MessageFetched")
              => /\ NumCalls(req[s], "get") = 1
                 /\ req[s].msg.id = req[s].ids[1]
         /\ req[s].ids = <<>>
              => /\ State(req[s]) = "Failed"
                 /\ req[s].pc = "done"
                 /\ NumCalls(req[s], "get") = 0
         /\ req[s].ids # <<>> => NumCalls(req[s], "get") = 1

\* a list of three messages: the one fetched is the first
C19_Witness ==
  /\ req[Run].ids = <<"m3", "m2", "m1">>
  /\ Reached(req[Run], "MessageFetched")
  /\ req[Run].msg.id = "m3"
  /\ NumCalls(req[Run], "get") = 1

\* C20: with an empty image list getLabelsForImages issues no classification
\* request and returns the empty label list; the run ends in Skipped, with no
\* modify call and nothing logged
C20_NoImagesSkips ==
  \A s \in Slots :
    (Reached(req[s], "ImagesExtracted") /\ req[s].images = <<>>)
      => /\ NumCalls(req[s], "classify") = 0
         /\ NumCalls(req[s], "modify") = 0
         /\ req[s].labels = <<>>
         /\ State(req[s]) = "Skipped"
         /\ req[s].logged = <<>>

\* an initWatch request starts in slot s in this step, with the query of the
\* redirect that the completed oauth2callback of slot t answered with
Follows(s, t) ==
  /\ Redirected(req[t])
  /\ req[s].kind = "idle" /\ req'[s].kind = "initWatch"
  /\ req'[s].query = QueryOf(req[t].resp[1].location)

C21_Step ==
  \A s, t \in Slots :
    Follows(s, t)
      => /\ Unescape(Escape(req[t].email)) = req[t].email
         /\ req'[s].query.email = req[t].email
         /\ req'[s].email = req[t].email
         /\ req'[s].pc = "lookup"
         /\ Ops(req'[s]) = <<"lookup">>
         /\ req'[s].resp = <<>>

\* C21: the initWatch request that follows the redirect of a successful
\* oauth2callback receives the identity just persisted and goes on to the
\* session lookup for it, it does not answer 400: the parameter the callback
\* writes is the one initWatch reads, and unescaping the escaped identity
\* gives the identity
C21_RedirectReachesLookup == [][C21_Step]_vars

(***************************************************************************)
(* One onNewMessage run in which every remote call returns.                *)
(***************************************************************************)
\* a pending remote call of the run returns
Returns ==
  \/ LookupReturn(Run)
  \/ RefreshReturn(Run)
  \/ SaveReturn(Run)
  \/ ListReturnOf(Run, WideListResults)
  \/ GetReturnOf(Run, WideBodies)
  \/ AttachReturn(Run)
  \/ ClassifyReturnOf(Run, WideClassResults)
  \/ ModifyReturn(Run)

SpecRunFair == SpecRun /\ WF_vars(Returns)

\* the states of a run before its end, in the order of the pipeline
Pipeline ==
  <<"Start", "SessionResolved", "MessageListed", "MessageFetched",
    "ImagesExtracted", "Labeled">>

Terminals == {"Mutated", "Skipped", "Failed"}

\* run r has ended in a terminal state
Ended(r) == State(r) \in Terminals

\* the states run r went through are the first states of the pipeline, in its
\* order, followed by at most one terminal state, Mutated only after Labeled
InOrder(r) ==
  LET n == Len(r.trail)
      k == IF n > 0 /\ r.trail[n] \in Terminals THEN n - 1 ELSE n
  IN /\ k <= Len(Pipeline)
     /\ SubSeq(r.trail, 1, k) = SubSeq(Pipeline, 1, k)
     /\ (n > k /\ r.trail[n] = "Mutated") => k = Len(Pipeline)

\* C22: when every remote call returns, every onNewMessage run ends in
\* exactly one of Mutated, Skipped and Failed, having passed through the
\* states of the pipeline in order, and the handler never throws or rejects
C22_RunTerminates ==
  /\ [](req[Run].kind = "onNewMessage" => InOrder(req[Run]) /\ ~req[Run].thrown)
  /\ (req[Run].kind = "onNewMessage") ~> Ended(req[Run])

\* the calls of request r for operation op, in the order of issue
CallsOf(r, op) == SelectSeq(r.calls, LAMBDA call : call.op = op)

\* the operations a run issues once at most
SingleOps == {"lookup", "refresh", "save", "list", "get", "modify"}

\* C23: nothing is retried: a run issues each of the lookup, the refresh, the
\* store write, the list, the fetch and the modify at most once, one
\* classification request per image, and one attachment fetch per image part
\* and none for an image given by URL
C23_NothingRetried ==
  \A s \in Slots :
    req[s].kind = "onNewMessage"
      => /\ \A op \in SingleOps : NumCalls(req[s], op) <= 1
         /\ NumCalls(req[s], "classify") \in {0, Len(req[s].images)}
         /\ \A i \in 1..NumCalls(req[s], "classify") :
              CallsOf(req[s], "classify")[i].arg = req[s].images[i].ref
         /\ NumCalls(req[s], "attach") \in {0, NumImageParts(req[s].msg)}
         /\ \A i \in 1..NumCalls(req[s], "attach") :
              CallsOf(req[s], "attach")[i].arg = ImageParts(req[s].msg)[i].attachmentId
         /\ req[s].pc = "done" => Len(req[s].calls) <= 6 + 2 * Len(req[s].images)

\* a run that refreshed and saved its token, fetched a message of two URL
\* images and one attachment, classified the three and starred the message
C23_Witness ==
  /\ Reached(req[Run], "Mutated")
  /\ req[Run].msg.payload = BodyThree
  /\ Ops(req[Run]) = <<"lookup", "refresh", "save", "list", "get", "attach",
                        "classify", "classify", "classify", "modify">>

====
